---- MODULE Spec2Model ----
(***************************************************************************)
(* Rules engine of roguelike_card_game.py ("Dungeon Cards").               *)
(*                                                                         *)
(* The state is Streamlit's session dictionary: player, floor,             *)
(* current_monster, game_state and combat_log.  Every button handler of    *)
(* main() is one action; play_card, monster_turn, end_turn and draw_hand   *)
(* are operators from a session record to a session record, so that a      *)
(* handler that calls several of them is still one atomic step.            *)
(*                                                                         *)
(* A card is identified by its name: all cards of one name are equal as    *)
(* dataclass values, and list.remove / == in the source compare by value.  *)
(*                                                                         *)
(* generate_event() is called on the map page but its result is unused:    *)
(* it writes nothing, and EventType.SHOP never reaches game_state.  An     *)
(* IndexError of player.hand[card_index] ends the script run before        *)
(* play_card has written anything.                                         *)
(*                                                                         *)
(* Exploration.  The runs of the game are unbounded in every direction     *)
(* (hp x hands x log), so the model is explored from a set of starting     *)
(* points: the sessions that scripted play reaches from the fresh session  *)
(* (Scripts, computed with the handlers themselves, so each of them is a   *)
(* session of the program).  From each starting point every run of Budget  *)
(* intents is explored.  A hand that can still be played is drawn from     *)
(* front to back of the deck (HandsInOrder); the hand drawn by the last    *)
(* intent explored is any hand draw_hand can draw (Hands).                 *)
(***************************************************************************)
EXTENDS Integers, Sequences, FiniteSets, TLC

VARIABLES
    player,           \* st.session_state.player (a Player dataclass)
    floor,            \* st.session_state.floor
    current_monster,  \* st.session_state.current_monster (a Monster or None)
    game_state,       \* st.session_state.game_state
    combat_log,       \* st.session_state.combat_log
    last,             \* history: the intent handled last and what it observed
    budget            \* history: intents this exploration may still handle

vars == <<player, floor, current_monster, game_state, combat_log, last, budget>>

Min(a, b) == IF a < b THEN a ELSE b
Max(a, b) == IF a > b THEN a ELSE b

-----------------------------------------------------------------------------
(* Bounds of the exploration.                                              *)

\* intents explored from each starting point
Budget == 2
\* random.choice(monsters) is drawn among the first MaxMonsterIdx monsters
MaxMonsterIdx == 2
\* random.choice(get_all_cards()) is drawn among the first MaxCatalogIdx cards
MaxCatalogIdx == 2
\* card_index passed to play_card ranges over -1..MaxCardIndex
MaxCardIndex == 5
\* random.randint(25, 50) is drawn within GoldSpread of either end of the range
GoldSpread == 0
\* get_monsters_for_floor is tabulated for the floors 1..FloorsChecked
FloorsChecked == 3

-----------------------------------------------------------------------------
(* Card catalog.                                                           *)

Card(n, t, c, d, b, h) ==
    [name |-> n, type |-> t, cost |-> c, damage |-> d, block |-> b, heal |-> h]

\* A card is written as its name; CardOf gives the dataclass value.
CardOf(n) ==
    CASE n = "Strike"         -> Card(n, "Attack", 1, 6, 0, 0)
      [] n = "Defend"         -> Card(n, "Defense", 1, 0, 5, 0)
      [] n = "Heal"           -> Card(n, "Heal", 2, 0, 0, 8)
      [] n = "Fireball"       -> Card(n, "Attack", 2, 12, 0, 0)
      [] n = "Lightning Bolt" -> Card(n, "Attack", 1, 8, 0, 0)
      [] n = "Shield Wall"    -> Card(n, "Defense", 2, 0, 12, 0)
      [] n = "Iron Skin"      -> Card(n, "Defense", 1, 0, 8, 0)
      [] n = "Potion"         -> Card(n, "Heal", 1, 0, 0, 5)
      [] n = "Greater Heal"   -> Card(n, "Heal", 3, 0, 0, 15)
      [] n = "Power Strike"   -> Card(n, "Attack", 3, 18, 0, 0)
      [] n = "Quick Strike"   -> Card(n, "Attack", 0, 3, 0, 0)
      [] n = "Barrier"        -> Card(n, "Defense", 3, 0, 20, 0)
      [] n = "Regeneration"   -> Card(n, "Heal", 2, 0, 0, 10)

starter_deck ==
    << "Strike", "Strike", "Strike", "Strike", "Defend", "Defend", "Defend", "Heal" >>

get_all_cards ==
    << "Fireball", "Lightning Bolt", "Shield Wall", "Iron Skin", "Potion",
       "Greater Heal", "Power Strike", "Quick Strike", "Barrier", "Regeneration" >>

\* the values random.choice(get_all_cards()) is drawn from
CatalogChoices == { get_all_cards[i] : i \in 1..Min(MaxCatalogIdx, Len(get_all_cards)) }

-----------------------------------------------------------------------------
(* Monster catalog.                                                        *)

\* current_monster = None; "None" also stands for card_reward = None
None ==
    [name |-> "None", hp |-> 0, max_hp |-> 0, attack |-> 0, gold_reward |-> 0,
     card_reward |-> "None"]

Monster(n, hp, mx, atk, gold) ==
    [name |-> n, hp |-> hp, max_hp |-> mx, attack |-> atk, gold_reward |-> gold,
     card_reward |-> "None"]

base_monsters ==
    << Monster("Goblin", 20, 20, 5, 15),
       Monster("Orc", 35, 35, 8, 25),
       Monster("Skeleton", 25, 25, 6, 20),
       Monster("Spider", 15, 15, 4, 12),
       Monster("Bandit", 30, 30, 7, 22) >>

\* a slip: max_hp keeps the base value
ScaleMonster_BaseMax(m, fl, reward) ==
    [m EXCEPT !.hp = m.hp + fl * 5,
              !.attack = m.attack + fl * 2,
              !.gold_reward = m.gold_reward + fl * 5,
              !.card_reward = reward]

\* the loop body of get_monsters_for_floor for one monster; reward is the card
\* drawn when random.random() < 0.3, "None" otherwise
ScaleMonster(m, fl, reward) ==
    [m EXCEPT !.hp = m.hp + fl * 5,
              !.max_hp = m.hp + fl * 5,
              !.attack = m.attack + fl * 2,
              !.gold_reward = m.gold_reward + fl * 5,
              !.card_reward = reward]

\* the rosters get_monsters_for_floor(fl) can return: one reward draw per monster
get_monsters_for_floor(fl) ==
    { [i \in 1..Len(base_monsters) |-> ScaleMonster(base_monsters[i], fl, r[i])] :
        r \in [1..Len(base_monsters) -> CatalogChoices \cup {"None"}] }

-----------------------------------------------------------------------------
(* Deck and hand.                                                          *)

\* list.remove(x): drops the first element equal to x
RECURSIVE RemoveFirst(_, _)
RemoveFirst(seq, x) ==
    IF seq = << >> THEN << >>
    ELSE IF Head(seq) = x THEN Tail(seq)
    ELSE << Head(seq) >> \o RemoveFirst(Tail(seq), x)

\* list.pop(i) for 0 <= i < len(seq), i counted from 0
Pop(seq, i) == SubSeq(seq, 1, i) \o SubSeq(seq, i + 2, Len(seq))

Range(seq) == { seq[i] : i \in DOMAIN seq }

\* the loop of draw_hand: n times, random.choice(available_cards) then
\* available_cards.remove(card).  Cards of one name are equal values, so the
\* choice is made among the names present.
RECURSIVE DrawLoop(_, _)
DrawLoop(available_cards, n) ==
    IF n = 0 \/ available_cards = << >> THEN { << >> }
    ELSE UNION { { << card >> \o rest :
                     rest \in DrawLoop(RemoveFirst(available_cards, card), n - 1) } :
                 card \in Range(available_cards) }

HandSize == 5

\* the hands draw_hand() can leave in player.hand
Hands(deck) == DrawLoop(deck, Min(HandSize, Len(deck)))

\* draw_hand() when the random choices produce hand h
draw_hand(S, h) == [S EXCEPT !.player.hand = h]

-----------------------------------------------------------------------------
(* Combat.                                                                 *)

Entry(kind, name, n) == << kind, name, n >>

\* a slip: a monster at exactly 0 hp is not yet defeated
CheckDefeat_Strict(S) ==
    LET monster == S.current_monster
        logged == Append(S.combat_log, Entry("defeated", monster.name, 0))
    IN  IF monster.hp < 0
        THEN [S EXCEPT
                !.player.gold = @ + monster.gold_reward,
                !.player.deck = IF monster.card_reward # "None"
                                THEN Append(@, monster.card_reward) ELSE @,
                !.combat_log = IF monster.card_reward # "None"
                               THEN Append(logged, Entry("gained", monster.card_reward, 0))
                               ELSE logged,
                !.game_state = "map",
                !.current_monster = None,
                !.floor = @ + 1]
        ELSE S

\* a slip: the defeat check without the floor increment
CheckDefeat_SameFloor(S) ==
    LET monster == S.current_monster
    IN  IF monster.hp <= 0
        THEN [S EXCEPT
                !.player.gold = @ + monster.gold_reward,
                !.player.deck = IF monster.card_reward # "None"
                                THEN Append(@, monster.card_reward) ELSE @,
                !.combat_log = Append(@, Entry("defeated", monster.name, 0)),
                !.game_state = "map",
                !.current_monster = None]
        ELSE S

\* lines 173-184 of play_card: the defeat check
CheckDefeat(S) ==
    LET monster == S.current_monster
        logged == Append(S.combat_log, Entry("defeated", monster.name, 0))
    IN  IF monster.hp <= 0
        THEN [S EXCEPT
                !.player.gold = @ + monster.gold_reward,
                !.player.deck = IF monster.card_reward # "None"
                                THEN Append(@, monster.card_reward) ELSE @,
                !.combat_log = IF monster.card_reward # "None"
                               THEN Append(logged, Entry("gained", monster.card_reward, 0))
                               ELSE logged,
                !.game_state = "map",
                !.current_monster = None,
                !.floor = @ + 1]
        ELSE S

\* lines 155-168 of play_card: the three effects of a card
ApplyDamage(S, card) ==
    IF card.damage > 0
    THEN [S EXCEPT !.current_monster.hp = @ - Max(0, card.damage),
                   !.combat_log = Append(@, Entry("deals", card.name, Max(0, card.damage)))]
    ELSE S

ApplyBlock(S, card) ==
    IF card.block > 0
    THEN [S EXCEPT !.player.block = @ + card.block,
                   !.combat_log = Append(@, Entry("block", card.name, card.block))]
    ELSE S

\* a slip: the heal is not clamped at max_hp
HealAmount_Unclamped(amount, max_hp, hp) == amount

\* min(card.heal, max_hp - hp) of line 166, min(20, max_hp - hp) of line 361
HealAmount(amount, max_hp, hp) == Min(amount, max_hp - hp)

ApplyHeal(S, card) ==
    IF card.heal > 0
    THEN LET heal_amount == HealAmount(card.heal, S.player.max_hp, S.player.hp)
         IN  [S EXCEPT !.player.hp = @ + heal_amount,
                       !.combat_log = Append(@, Entry("healed", card.name, heal_amount))]
    ELSE S

\* Python's list index: a negative index counts from the end
PyIndex(seq, i) == IF i < 0 THEN i + Len(seq) ELSE i

\* player.hand[card_index] raises IndexError
IndexError(hand, card_index) == PyIndex(hand, card_index) < 0

\* a slip: the rejected play still spends the energy that is left
NotEnoughEnergy_Spends(S) ==
    [S EXCEPT !.combat_log = Append(@, Entry("not enough energy", "", 0)),
              !.player.energy = 0]

\* lines 149-151 of play_card
NotEnoughEnergy(S) ==
    [S EXCEPT !.combat_log = Append(@, Entry("not enough energy", "", 0))]

play_card(S, card_index) ==
    LET hand == S.player.hand
        pos  == PyIndex(hand, card_index)
        card == CardOf(hand[pos + 1])
    IN  IF card_index >= Len(hand) THEN S
        ELSE IF IndexError(hand, card_index) THEN S
        ELSE IF S.player.energy < card.cost
             THEN NotEnoughEnergy(S)
        ELSE LET paid    == [S EXCEPT !.player.energy = @ - card.cost]
                 applied == ApplyHeal(ApplyBlock(ApplyDamage(paid, card), card), card)
                 popped  == [applied EXCEPT !.player.hand = Pop(@, pos)]
             IN  CheckDefeat(popped)

\* a slip: the player survives at exactly 0 hp
monster_turn_StrictDeath(S) ==
    LET monster == S.current_monster
        damage  == Max(0, monster.attack - S.player.block)
        hit     == [S EXCEPT !.player.hp = @ - damage,
                             !.player.block = Max(0, @ - monster.attack),
                             !.combat_log = Append(@, Entry("attacks", monster.name, damage))]
    IN  IF monster # None /\ monster.hp > 0
        THEN IF hit.player.hp < 0 THEN [hit EXCEPT !.game_state = "game_over"] ELSE hit
        ELSE S

\* a slip: the attack ignores the block
monster_turn_Pierce(S) ==
    LET monster == S.current_monster
        damage  == monster.attack
        hit     == [S EXCEPT !.player.hp = @ - damage,
                             !.player.block = Max(0, @ - monster.attack),
                             !.combat_log = Append(@, Entry("attacks", monster.name, damage))]
    IN  IF monster # None /\ monster.hp > 0
        THEN IF hit.player.hp <= 0 THEN [hit EXCEPT !.game_state = "game_over"] ELSE hit
        ELSE S

monster_turn(S) ==
    LET monster == S.current_monster
        damage  == Max(0, monster.attack - S.player.block)
        hit     == [S EXCEPT !.player.hp = @ - damage,
                             !.player.block = Max(0, @ - monster.attack),
                             !.combat_log = Append(@, Entry("attacks", monster.name, damage))]
    IN  IF monster # None /\ monster.hp > 0
        THEN IF hit.player.hp <= 0 THEN [hit EXCEPT !.game_state = "game_over"] ELSE hit
        ELSE S

\* a slip: the energy is not refilled
ResetTurn_NoEnergy(S) == [S EXCEPT !.player.block = 0]

\* lines 206-208 of end_turn
ResetTurn(S) == [S EXCEPT !.player.energy = S.player.max_energy, !.player.block = 0]

\* a slip: the turn stops where the monster turn ended the game
end_turn_StopsOnDefeat(S, h) ==
    IF monster_turn(S).game_state = "game_over"
    THEN monster_turn(S)
    ELSE draw_hand(ResetTurn(monster_turn(S)), h)

\* end_turn() when draw_hand's random choices produce hand h
end_turn(S, h) == draw_hand(ResetTurn(monster_turn(S)), h)

-----------------------------------------------------------------------------
(* Random choices.                                                         *)

\* what random.choice(get_monsters_for_floor(fl)) can be
AllMonsterChoices(fl) ==
    { ScaleMonster(base_monsters[i], fl, r) :
        i \in 1..Len(base_monsters), r \in Range(get_all_cards) \cup {"None"} }

\* the draws of draw_hand whose picks run through available_cards from front to
\* back: each random.choice picks at or after the slot of the pick before it
RECURSIVE DrawLoopInOrder(_, _, _)
DrawLoopInOrder(available_cards, n, from) ==
    IF n = 0 \/ available_cards = << >> THEN { << >> }
    ELSE UNION { { << available_cards[i] >> \o rest :
                     rest \in DrawLoopInOrder(
                                 RemoveFirst(available_cards, available_cards[i]), n - 1, i) } :
                 i \in from..Len(available_cards) }

\* a draw that stops short of min(5, len(deck)) cards is no draw of draw_hand
HandsInOrder(deck) ==
    { h \in DrawLoopInOrder(deck, Min(HandSize, Len(deck)), 1) :
        Len(h) = Min(HandSize, Len(deck)) }

\* a slip: the range of the gold found is one wider at either end
GoldFound_Wide == { g \in 24..51 : g <= 24 + GoldSpread \/ g >= 51 - GoldSpread }

GoldFound == { g \in 25..50 : g <= 25 + GoldSpread \/ g >= 50 - GoldSpread }

-----------------------------------------------------------------------------
(* The button handlers of main(), as functions of the session.             *)

init_game_state ==
    [player |-> [hp |-> 50, max_hp |-> 50, energy |-> 3, max_energy |-> 3, gold |-> 50,
                 deck |-> starter_deck, hand |-> << >>, block |-> 0],
     floor |-> 1,
     current_monster |-> None,
     game_state |-> "map",
     combat_log |-> << >>]

\* a slip: a new encounter starts with full energy
choose_combat_Refill(S, monster, h) ==
    draw_hand([S EXCEPT !.current_monster = monster,
                        !.game_state = "combat",
                        !.combat_log = << >>,
                        !.player.energy = S.player.max_energy], h)

\* lines 283-289; monster is random.choice(monsters), h the hand draw_hand draws
choose_combat(S, monster, h) ==
    draw_hand([S EXCEPT !.current_monster = monster,
                        !.game_state = "combat",
                        !.combat_log = << >>], h)

\* lines 292-294
choose_treasure(S) == [S EXCEPT !.game_state = "treasure"]

\* lines 297-299
choose_rest(S) == [S EXCEPT !.game_state = "rest"]

\* a slip: fleeing costs gold
flee_Toll(S) ==
    [S EXCEPT !.game_state = "map", !.current_monster = None,
              !.player.gold = Max(0, @ - 10)]

\* a slip: fleeing counts as a floor cleared
flee_Advance(S) ==
    [S EXCEPT !.game_state = "map", !.current_monster = None, !.floor = @ + 1]

\* lines 328-331
flee(S) == [S EXCEPT !.game_state = "map", !.current_monster = None]

\* lines 339-344
take_gold(S, gold_found) ==
    [S EXCEPT !.player.gold = @ + gold_found, !.game_state = "map"]

\* lines 347-352
take_card(S, new_card) ==
    [S EXCEPT !.player.deck = Append(@, new_card), !.game_state = "map"]

RestHealAmount == 20

\* lines 360-365
rest_heal(S) ==
    [S EXCEPT !.player.hp = @ + HealAmount(RestHealAmount, S.player.max_hp, S.player.hp),
              !.game_state = "map"]

MinDeck == 5

\* a slip: >= for > in the deck size test
rest_upgrade_AtMin(S, card_to_remove) ==
    IF Len(S.player.deck) >= MinDeck
    THEN [S EXCEPT !.player.deck = RemoveFirst(@, card_to_remove), !.game_state = "map"]
    ELSE [S EXCEPT !.game_state = "map"]

\* lines 368-376; card_to_remove is random.choice(deck), unused when the deck is small
rest_upgrade(S, card_to_remove) ==
    IF Len(S.player.deck) > MinDeck
    THEN [S EXCEPT !.player.deck = RemoveFirst(@, card_to_remove), !.game_state = "map"]
    ELSE [S EXCEPT !.game_state = "map"]

\* a slip: the player object survives the reset of the other keys
restart_KeepPlayer(S) == [init_game_state EXCEPT !.player = S.player]

\* lines 382-386: every key is deleted and the rerun's init_game_state sets them anew
restart(S) == init_game_state

-----------------------------------------------------------------------------
(* Scripted play: the starting points of the exploration.  A move is a     *)
(* tuple << handler, input >>; a move whose button is not on the page, or  *)
(* whose input no random choice produces, leaves the session alone.        *)

Allowed(S, mv) ==
    CASE mv[1] = "chooseCombat" ->
            /\ S.game_state = "map"
            /\ mv[2] \in AllMonsterChoices(S.floor)
            /\ mv[3] \in Hands(S.player.deck)
      [] mv[1] = "chooseTreasure" -> S.game_state = "map"
      [] mv[1] = "chooseRest" -> S.game_state = "map"
      [] mv[1] = "playCard" -> S.game_state = "combat"
      [] mv[1] = "endTurn" -> S.game_state = "combat" /\ mv[2] \in Hands(S.player.deck)
      [] mv[1] = "flee" -> S.game_state = "combat"
      [] mv[1] = "takeGold" -> S.game_state = "treasure" /\ mv[2] \in 25..50
      [] mv[1] = "takeCard" -> S.game_state = "treasure" /\ mv[2] \in Range(get_all_cards)
      [] mv[1] = "restHeal" -> S.game_state = "rest"
      [] mv[1] = "restUpgrade" -> S.game_state = "rest" /\ mv[2] \in Range(S.player.deck)
      [] mv[1] = "restart" -> S.game_state = "game_over"

Apply(S, mv) ==
    IF ~Allowed(S, mv) THEN S
    ELSE CASE mv[1] = "chooseCombat" -> choose_combat(S, mv[2], mv[3])
           [] mv[1] = "chooseTreasure" -> choose_treasure(S)
           [] mv[1] = "chooseRest" -> choose_rest(S)
           [] mv[1] = "playCard" -> play_card(S, mv[2])
           [] mv[1] = "endTurn" -> end_turn(S, mv[2])
           [] mv[1] = "flee" -> flee(S)
           [] mv[1] = "takeGold" -> take_gold(S, mv[2])
           [] mv[1] = "takeCard" -> take_card(S, mv[2])
           [] mv[1] = "restHeal" -> rest_heal(S)
           [] mv[1] = "restUpgrade" -> rest_upgrade(S, mv[2])
           [] mv[1] = "restart" -> restart(S)

\* the session after the first n moves of a script, from a fresh session
RECURSIVE Run(_, _)
Run(script, n) ==
    IF n = 0 THEN init_game_state ELSE Apply(Run(script, n - 1), script[n])

Goblin(fl, reward) == ScaleMonster(base_monsters[1], fl, reward)
Orc(fl, reward) == ScaleMonster(base_monsters[2], fl, reward)

S4D == << "Strike", "Strike", "Strike", "Strike", "Defend" >>
S3DH == << "Strike", "Strike", "Strike", "Defend", "Heal" >>
S2D3 == << "Strike", "Strike", "Defend", "Defend", "Defend" >>

\* three Strikes, a turn, two more: the Goblin of floor 1 falls; then floor 2
ScriptWin(reward) ==
    << << "chooseCombat", Goblin(1, reward), S4D >>,
       << "playCard", 0 >>, << "playCard", 0 >>, << "playCard", 0 >>,
       << "endTurn", S3DH >>,
       << "playCard", 0 >>, << "playCard", 0 >>,
       << "chooseCombat", Orc(2, "None"), S4D >> >>

\* after the Goblin of floor 1, with the one energy left, the Goblin of floor 2
\* (30 hp) falls to exactly five Strikes; then floor 3
ScriptThirdFloor ==
    SubSeq(ScriptWin("None"), 1, 7) \o
    << << "chooseCombat", Goblin(2, "None"), S4D >>,
       << "playCard", 0 >>,
       << "endTurn", S4D >>,
       << "playCard", 0 >>, << "playCard", 0 >>, << "playCard", 0 >>,
       << "endTurn", S4D >>,
       << "playCard", 0 >> >>

\* the Orc of floor 1 hits for 10: four hits leave 10 hp
ScriptLost ==
    << << "chooseCombat", Orc(1, "None"), S3DH >>,
       << "endTurn", S3DH >>, << "endTurn", S3DH >>, << "endTurn", S3DH >>,
       << "endTurn", S3DH >> >>

\* the Goblin of floor 1 hits for 7
ScriptWorn ==
    << << "chooseCombat", Goblin(1, "None"), S3DH >>,
       << "endTurn", S3DH >>, << "endTurn", S3DH >>, << "endTurn", S3DH >>,
       << "endTurn", S3DH >>, << "endTurn", S3DH >>, << "endTurn", S3DH >>,
       << "endTurn", S2D3 >>,
       << "playCard", 2 >>,
       << "flee" >>, << "chooseRest" >> >>

\* block and spent energy taken out of an encounter
ScriptFlee ==
    << << "chooseCombat", Goblin(1, "None"), S2D3 >>,
       << "playCard", 2 >>, << "playCard", 2 >>,
       << "flee" >>,
       << "chooseRest" >>, << "restUpgrade", "Defend" >> >>

\* the deck is cut down to five cards
ScriptUpgrade ==
    << << "chooseRest" >>, << "restUpgrade", "Strike" >>,
       << "chooseRest" >>, << "restUpgrade", "Defend" >>,
       << "chooseRest" >>, << "restUpgrade", "Heal" >>,
       << "chooseRest" >> >>

ScriptTreasure ==
    << << "chooseTreasure" >>, << "takeCard", "Potion" >>,
       << "chooseTreasure" >>, << "takeGold", 37 >> >>

\* a hit, then to the rest site
ScriptRest ==
    << << "chooseCombat", Goblin(1, "None"), S4D >>,
       << "endTurn", S4D >>,
       << "flee" >>, << "chooseRest" >> >>

Scripts ==
    { ScriptWin("None"), ScriptWin("Fireball"), ScriptLost, ScriptWorn, ScriptFlee,
      ScriptRest, ScriptUpgrade, ScriptTreasure, ScriptThirdFloor }

StartingPoints ==
    UNION { { Run(script, n) : n \in 0..Len(script) } : script \in Scripts }

-----------------------------------------------------------------------------
(* The specification.                                                      *)

Session ==
    [player |-> player, floor |-> floor, current_monster |-> current_monster,
     game_state |-> game_state, combat_log |-> combat_log]

\* the session is S
Is(S) ==
    /\ player = S.player
    /\ floor = S.floor
    /\ current_monster = S.current_monster
    /\ game_state = S.game_state
    /\ combat_log = S.combat_log

\* the session becomes S
Becomes(S) ==
    /\ player' = S.player
    /\ floor' = S.floor
    /\ current_monster' = S.current_monster
    /\ game_state' = S.game_state
    /\ combat_log' = S.combat_log

NoIntent == [op |-> "none", arg |-> 0]

Init ==
    /\ \E S \in StartingPoints : Is(S)
    /\ last = NoIntent
    /\ budget = Budget

\* an intent can still be explored
Open == budget > 0

\* one intent is handled, with input arg (a number, 0 where there is none)
Handled(op, arg) ==
    /\ budget' = budget - 1
    /\ last' = [op |-> op, arg |-> arg]

\* the values random.choice(monsters) is drawn from
MonsterChoices(fl) ==
    { m \in AllMonsterChoices(fl) :
        /\ \E i \in 1..Min(MaxMonsterIdx, Len(base_monsters)) : m.name = base_monsters[i].name
        /\ m.card_reward \in CatalogChoices \cup {"None"} }

\* the hands drawn: any hand for the last intent explored, which nobody plays;
\* before that, the hands drawn from front to back
DrawnHands(deck) == IF budget = 1 THEN Hands(deck) ELSE HandsInOrder(deck)

ChooseCombat ==
    /\ Open
    /\ game_state = "map"
    /\ \E monster \in MonsterChoices(floor), h \in DrawnHands(player.deck) :
          Becomes(choose_combat(Session, monster, h))
    /\ Handled("chooseCombat", 0)

ChooseTreasure ==
    /\ Open
    /\ game_state = "map"
    /\ Becomes(choose_treasure(Session))
    /\ Handled("chooseTreasure", 0)

ChooseRest ==
    /\ Open
    /\ game_state = "map"
    /\ Becomes(choose_rest(Session))
    /\ Handled("chooseRest", 0)

PlayCard ==
    /\ Open
    /\ game_state = "combat"
    /\ \E card_index \in (0 - 1)..MaxCardIndex :
          /\ Becomes(play_card(Session, card_index))
          /\ Handled("playCard", card_index)

EndTurn ==
    /\ Open
    /\ game_state = "combat"
    /\ \E h \in DrawnHands(player.deck) : Becomes(end_turn(Session, h))
    /\ Handled("endTurn", 0)

Flee ==
    /\ Open
    /\ game_state = "combat"
    /\ Becomes(flee(Session))
    /\ Handled("flee", 0)

TakeGold ==
    /\ Open
    /\ game_state = "treasure"
    /\ \E gold_found \in GoldFound :
          /\ Becomes(take_gold(Session, gold_found))
          /\ Handled("takeGold", gold_found)

TakeCard ==
    /\ Open
    /\ game_state = "treasure"
    /\ \E new_card \in CatalogChoices : Becomes(take_card(Session, new_card))
    /\ Handled("takeCard", 0)

RestHeal ==
    /\ Open
    /\ game_state = "rest"
    /\ Becomes(rest_heal(Session))
    /\ Handled("restHeal", 0)

RestUpgrade ==
    /\ Open
    /\ game_state = "rest"
    /\ \E card_to_remove \in Range(player.deck) :
          Becomes(rest_upgrade(Session, card_to_remove))
    /\ Handled("restUpgrade", 0)

Restart ==
    /\ Open
    /\ game_state = "game_over"
    /\ Becomes(restart(Session))
    /\ Handled("restart", 0)

Next ==
    \/ ChooseCombat
    \/ ChooseTreasure
    \/ ChooseRest
    \/ PlayCard
    \/ EndTurn
    \/ Flee
    \/ TakeGold
    \/ TakeCard
    \/ RestHeal
    \/ RestUpgrade
    \/ Restart

Spec == Init /\ [][Next]_vars

-----------------------------------------------------------------------------
(* Vocabulary of the properties.                                           *)

\* the step handles intent op
Did(op) == last'.op = op

\* card_index of the playCard step
Index == last'.arg

\* the card the playCard step names, as Python resolves the index
Named == CardOf(player.hand[PyIndex(player.hand, Index) + 1])

\* the playCard step took a card out of the hand, i.e. the play was accepted
Played == Did("playCard") /\ Len(player'.hand) < Len(player.hand)

LastEntry == combat_log[Len(combat_log)]

Count(seq, x) == Cardinality({ i \in DOMAIN seq : seq[i] = x })

-----------------------------------------------------------------------------
(* C1 - C10                                                                *)

\* C1: playCard on a valid hand index whose card costs more than the energy
\* left changes nothing but the combat log, which gains exactly one
\* "not enough energy" entry.
C1_RejectedPlayOnlyLogs ==
    [][ ( /\ Did("playCard")
          /\ Index \in 0..(Len(player.hand) - 1)
          /\ Named.cost > player.energy )
        => /\ player' = player
           /\ floor' = floor
           /\ current_monster' = current_monster
           /\ game_state' = game_state
           /\ combat_log' = Append(combat_log, Entry("not enough energy", "", 0)) ]_vars

\* a play was just rejected for want of energy
C1_Witness ==
    /\ last.op = "playCard"
    /\ combat_log # << >>
    /\ LastEntry[1] = "not enough energy"
    /\ last.arg \in 0..(Len(player.hand) - 1)
    /\ CardOf(player.hand[last.arg + 1]).cost > player.energy

\* C2: in every reachable state 0 <= player.hp <= player.max_hp.
C2_HpInRange == 0 <= player.hp /\ player.hp <= player.max_hp

\* C3: an accepted play that leaves the monster at hp <= 0 adds its gold
\* reward, appends its card reward if it has one, adds 1 to the floor, clears
\* the monster and goes to the map, all in that step; an accepted play that
\* leaves the monster alive changes none of gold, deck, floor and phase.
C3_WinInOneStep ==
    [][ Played =>
          LET monster == current_monster
              left    == monster.hp - Named.damage
          IN  IF left <= 0
              THEN /\ player'.gold = player.gold + monster.gold_reward
                   /\ player'.deck = IF monster.card_reward # "None"
                                     THEN Append(player.deck, monster.card_reward)
                                     ELSE player.deck
                   /\ floor' = floor + 1
                   /\ current_monster' = None
                   /\ game_state' = "map"
              ELSE /\ player'.gold = player.gold
                   /\ player'.deck = player.deck
                   /\ floor' = floor
                   /\ game_state' = game_state
                   /\ current_monster'.hp = left ]_vars

\* a monster with a card reward was just defeated
C3_Witness ==
    /\ last.op = "playCard"
    /\ game_state = "map"
    /\ floor = 2
    /\ combat_log # << >>
    /\ LastEntry[1] = "gained"
    /\ player.deck = Append(starter_deck, LastEntry[2])

\* C4: a monster turn with a living monster takes max(0, attack - block) from
\* the player's hp and leaves block = max(0, block - attack), never negative.
C4_MonsterTurnArithmetic ==
    [][ (Did("endTurn") /\ current_monster # None /\ current_monster.hp > 0)
        => LET attack == current_monster.attack
               after  == monster_turn(Session)
           IN  /\ player'.hp = player.hp - Max(0, attack - player.block)
               /\ after.player.hp = player'.hp
               /\ after.player.block = Max(0, player.block - attack)
               /\ after.player.block >= 0 ]_vars

\* the monster just hit through a block that took part of the attack
C4_Witness ==
    /\ last.op = "endTurn"
    /\ game_state = "combat"
    /\ combat_log # << >>
    /\ LastEntry[1] = "attacks"
    /\ LastEntry[3] > 0
    /\ LastEntry[3] < current_monster.attack

\* C5: the deck never has fewer than 5 cards; restUpgrade removes exactly one
\* card from a deck of more than 5 and none from a deck of 5 or fewer, and
\* goes to the map; every other intent leaves the deck as it is or appends one
\* card to it (restart puts the starter deck back).
C5_DeckAtLeastFive ==
    /\ [](Len(player.deck) >= 5)
    /\ [][ /\ Did("restUpgrade") =>
               /\ game_state' = "map"
               /\ IF Len(player.deck) > 5
                  THEN /\ Len(player'.deck) = Len(player.deck) - 1
                       /\ \E c \in Range(player.deck) :
                             player'.deck = RemoveFirst(player.deck, c)
                  ELSE player'.deck = player.deck
           /\ Did("restart") => player'.deck = starter_deck
           /\ ~(Did("restUpgrade") \/ Did("restart")) =>
               \/ player'.deck = player.deck
               \/ /\ Len(player'.deck) = Len(player.deck) + 1
                  /\ SubSeq(player'.deck, 1, Len(player.deck)) = player.deck ]_vars

\* an upgrade just left the deck at the minimum
C5_Witness ==
    /\ last.op = "restUpgrade"
    /\ game_state = "map"
    /\ Len(player.deck) = 5

\* C6: a played card with heal > 0 raises hp by min(card.heal, max_hp - hp),
\* restHeal by min(20, max_hp - hp); hp does not pass max_hp and does not drop.
C6_HealClamped ==
    [][ /\ (Played /\ Named.heal > 0) =>
             /\ player'.hp = player.hp + Min(Named.heal, player.max_hp - player.hp)
             /\ player'.hp <= player.max_hp
             /\ player'.hp >= player.hp
        /\ Did("restHeal") =>
             /\ player'.hp = player.hp + Min(20, player.max_hp - player.hp)
             /\ player'.hp <= player.max_hp
             /\ player'.hp >= player.hp ]_vars

\* a heal card was just played and healed less than its magnitude
C6_Witness ==
    /\ last.op = "playCard"
    /\ combat_log # << >>
    /\ LastEntry[1] = "healed"
    /\ LastEntry[3] > 0
    /\ LastEntry[3] < CardOf(LastEntry[2]).heal
    /\ player.hp = player.max_hp

\* the log of the scenario of C7 after k plays, k <= 4
ScenarioLog(k) ==
    SubSeq(<< Entry("deals", "Strike", 6), Entry("deals", "Strike", 6),
              Entry("deals", "Strike", 6), Entry("not enough energy", "", 0) >>, 1, k)

\* the scenario of C7 after k plays of a Strike, the fourth of them rejected
ScenarioStage(k) ==
    /\ game_state = "combat"
    /\ floor = 1
    /\ current_monster.name = "Goblin"
    /\ current_monster.hp = 25 - 6 * Min(k, 3)
    /\ current_monster.attack = 7
    /\ player.hp = 50
    /\ player.energy = 3 - Min(k, 3)
    /\ player.block = 0
    /\ player.deck = starter_deck
    /\ Len(player.hand) = 5 - Min(k, 3)
    /\ Count(player.hand, "Strike") = 4 - Min(k, 3)
    /\ combat_log = ScenarioLog(k)

\* the scenario of C7 after the endTurn
ScenarioEnd ==
    /\ game_state = "combat"
    /\ floor = 1
    /\ current_monster.name = "Goblin"
    /\ current_monster.hp = 7
    /\ player.hp = 50 - 7
    /\ player.energy = 3
    /\ player.block = 0
    /\ player.deck = starter_deck
    /\ Len(player.hand) = 5
    /\ combat_log = Append(ScenarioLog(4), Entry("attacks", "Goblin", 7))

\* C7: from the fresh session, against the Goblin with four Strikes in hand:
\* three Strikes take the monster 25 -> 19 -> 13 -> 7 and the energy 3 -> 0,
\* the fourth is rejected and the monster stays at 7, and endTurn then costs
\* the player 7 hp, gives energy 3, block 0 and a hand of 5, still in combat.
C7_Scenario ==
    [][ /\ ( /\ Session = init_game_state
             /\ Did("chooseCombat")
             /\ current_monster'.name = "Goblin"
             /\ Count(player'.hand, "Strike") = 4 )
           => ScenarioStage(0)'
        /\ \A k \in 0..3 :
             ( /\ ScenarioStage(k)
               /\ Did("playCard")
               /\ Index \in 0..(Len(player.hand) - 1)
               /\ player.hand[Index + 1] = "Strike" )
             => ScenarioStage(k + 1)'
        /\ (ScenarioStage(4) /\ Did("endTurn")) => ScenarioEnd' ]_vars

\* the scenario has run to its end
C7_Witness == last.op = "endTurn" /\ ScenarioEnd

Phases == { "map", "combat", "treasure", "rest", "game_over" }

\* << phase, next phase, intent >> of the listed transitions
Transitions ==
    { << "map", "combat", "chooseCombat" >>,
      << "map", "treasure", "chooseTreasure" >>,
      << "map", "rest", "chooseRest" >>,
      << "combat", "map", "playCard" >>,
      << "combat", "map", "flee" >>,
      << "combat", "game_over", "endTurn" >>,
      << "treasure", "map", "takeGold" >>,
      << "treasure", "map", "takeCard" >>,
      << "rest", "map", "restHeal" >>,
      << "rest", "map", "restUpgrade" >>,
      << "game_over", "map", "restart" >> }

\* C8: the phase is one of the five and never "shop"; it changes only along
\* the listed transitions, combat -> map by playCard only on a win and
\* combat -> game_over only with the player defeated; restart leaves exactly
\* the fresh session.
C8_PhaseTransitions ==
    /\ [](game_state \in Phases /\ game_state # "shop")
    /\ [][ /\ game_state' # game_state =>
               /\ << game_state, game_state', last'.op >> \in Transitions
               /\ (game_state' = "game_over") => player'.hp <= 0
               /\ (Did("playCard") /\ game_state' = "map") =>
                      current_monster.hp - Named.damage <= 0
           /\ Did("restart") => (game_state = "game_over" /\ Session' = init_game_state)
         ]_vars

\* a run was just restarted
C8_Witness == last.op = "restart" /\ Session = init_game_state

\* C9: the active monster is present exactly when the phase is combat.
C9_MonsterIffCombat == (current_monster # None) <=> (game_state = "combat")

\* C10: the floor starts at 1; within a run it changes only in a playCard
\* step that defeats the monster, by +1; restart puts it back to 1.
C10_FloorMonotone ==
    /\ init_game_state.floor = 1
    /\ [][ /\ Did("restart") => floor' = 1
           /\ (~Did("restart") /\ floor' # floor) =>
                /\ Played
                /\ current_monster.hp - Named.damage <= 0
                /\ floor' = floor + 1
           /\ (Did("flee") \/ Did("endTurn") \/ Did("takeGold") \/ Did("takeCard")
                 \/ Did("restHeal") \/ Did("restUpgrade") \/ Did("chooseTreasure")
                 \/ Did("chooseRest") \/ Did("chooseCombat")) => floor' = floor ]_vars

\* a monster without card reward was just defeated on floor 1
C10_Witness ==
    /\ last.op = "playCard"
    /\ game_state = "map"
    /\ floor = 2
    /\ player.deck = starter_deck
    /\ combat_log # << >>
    /\ LastEntry[1] = "defeated"

-----------------------------------------------------------------------------
(* C11 - C20                                                               *)

\* every card of hand, counted with multiplicity, is in deck
SubBag(hand, deck) == \A c \in Range(hand) : Count(hand, c) <= Count(deck, c)

\* C11: right after every endTurn, also one that ends the game, energy is
\* max_energy, block is 0, the hand is a draw of exactly min(5, deck size)
\* cards of the deck, and the deck is as it was.
C11_EndTurnAlwaysResets ==
    [][ Did("endTurn") =>
          /\ player'.energy = player'.max_energy
          /\ player'.block = 0
          /\ Len(player'.hand) = Min(5, Len(player.deck))
          /\ SubBag(player'.hand, player.deck)
          /\ player'.deck = player.deck
          /\ game_state' \in { "combat", "game_over" } ]_vars

\* an endTurn that ended the game: the energy spent before it is back
C11_Witness ==
    /\ last.op = "endTurn"
    /\ game_state = "game_over"
    /\ player.energy = player.max_energy
    /\ player.block = 0
    /\ Len(player.hand) = 5
    /\ Len(combat_log) >= 2
    /\ combat_log[Len(combat_log) - 1][1] = "block"

\* C12: flee goes to the map and clears the monster; hp, max_hp, gold, deck and
\* floor are what they were.
C12_FleeIsFree ==
    [][ Did("flee") =>
          /\ game_state = "combat"
          /\ game_state' = "map"
          /\ current_monster' = None
          /\ player'.hp = player.hp
          /\ player'.max_hp = player.max_hp
          /\ player'.gold = player.gold
          /\ player'.deck = player.deck
          /\ floor' = floor ]_vars

\* the player just fled a monster that had hit before
C12_Witness ==
    /\ last.op = "flee"
    /\ game_state = "map"
    /\ current_monster = None
    /\ player.hp < player.max_hp

C14_BlockZeroAtTurnStart ==
    /\ last.op \in { "endTurn", "chooseCombat" } => player.block = 0
    /\ player.block >= 0

\* C15: takeGold adds an integer g with 25 <= g <= 50 to gold and changes
\* nothing else but the phase; takeCard appends exactly one card of the catalog
\* to the deck and changes nothing else but the phase; both go to the map.
C15_TreasureChoices ==
    [][ /\ Did("takeGold") =>
              /\ game_state = "treasure"
              /\ game_state' = "map"
              /\ \E g \in 25..50 : player' = [player EXCEPT !.gold = @ + g]
              /\ << floor, current_monster, combat_log >>'
                    = << floor, current_monster, combat_log >>
        /\ Did("takeCard") =>
              /\ game_state = "treasure"
              /\ game_state' = "map"
              /\ \E c \in Range(get_all_cards) :
                    player' = [player EXCEPT !.deck = Append(@, c)]
              /\ << floor, current_monster, combat_log >>'
                    = << floor, current_monster, combat_log >> ]_vars

\* the largest find was taken
C15_Witness ==
    /\ last.op = "takeGold"
    /\ last.arg = 50
    /\ game_state = "map"
    /\ player.gold >= 50

\* monster m is the i-th base monster scaled for floor fl as the claim has it
ScaledAsClaimed(m, i, fl) ==
    /\ m.name = base_monsters[i].name
    /\ m.hp = base_monsters[i].hp + 5 * fl
    /\ m.max_hp = m.hp
    /\ m.attack = base_monsters[i].attack + 2 * fl
    /\ m.gold_reward = base_monsters[i].gold_reward + 5 * fl

\* every roster get_monsters_for_floor can return, whatever the reward draws
RostersScaleAsClaimed ==
    /\ \A fl \in 1..FloorsChecked : \A roster \in get_monsters_for_floor(fl) :
          /\ Len(roster) = Len(base_monsters)
          /\ \A i \in 1..Len(roster) : ScaledAsClaimed(roster[i], i, fl)
    /\ \A roster \in get_monsters_for_floor(3) :
          /\ roster[1].name = "Goblin"
          /\ << roster[1].hp, roster[1].max_hp, roster[1].attack, roster[1].gold_reward >>
                = << 35, 35, 11, 30 >>

\* C16: on every floor f >= 1 a monster is created with hp = base hp + 5f,
\* max_hp = hp, attack = base attack + 2f and gold reward = base gold + 5f,
\* whatever the reward draw (the Goblin of floor 3: 35, 35, 11, 30); during an
\* encounter its max_hp, attack, gold reward and card reward never change, and
\* its hp changes only by the damage of a played card.
C16_MonsterScaling ==
    [][ /\ RostersScaleAsClaimed
        /\ Did("chooseCombat") =>
              \E i \in 1..Len(base_monsters) :
                  ScaledAsClaimed(current_monster', i, floor)
        /\ game_state = "combat" /\ game_state' \in { "combat", "game_over" } =>
              /\ current_monster' = [current_monster EXCEPT !.hp = current_monster'.hp]
              /\ current_monster'.hp =
                    IF Played THEN current_monster.hp - Named.damage
                    ELSE current_monster.hp ]_vars

\* the Goblin of floor 3 after one Strike
C16_Witness ==
    /\ floor = 3
    /\ game_state = "combat"
    /\ last.op = "playCard"
    /\ current_monster.name = "Goblin"
    /\ current_monster.hp = 29
    /\ current_monster.max_hp = 35
    /\ current_monster.attack = 11
    /\ current_monster.gold_reward = 30
    /\ current_monster.card_reward # "None"

\* C17: the phase is game_over exactly when the player's hp is <= 0: the
\* monster turn that brings hp to 0 or below ends the game within the same
\* endTurn, one that leaves hp > 0 stays in combat, and a state with hp <= 0
\* takes no intent but restart.
C17_GameOverIffDead ==
    [][ /\ game_state = "game_over" <=> player.hp <= 0
        /\ game_state' = "game_over" <=> player'.hp <= 0
        /\ Did("endTurn") =>
              game_state' = IF player'.hp <= 0 THEN "game_over" ELSE "combat"
        /\ player.hp <= 0 => Did("restart") ]_vars

\* the last hit took exactly the hp that was left
C17_Witness ==
    /\ last.op = "endTurn"
    /\ game_state = "game_over"
    /\ player.hp = 0

\* C18: playCard with an index out of the hand's bounds (index >= hand size,
\* and likewise a negative index) removes no card and changes nothing; with a
\* valid index and enough energy exactly the card at that position leaves the
\* hand, the others keep their order, and energy decreases by the card's cost.
C18_PlayCardIndex ==
    [][ Did("playCard") =>
          /\ Index >= Len(player.hand) \/ Index < 0 =>
                << player, floor, current_monster, game_state, combat_log >>'
                   = << player, floor, current_monster, game_state, combat_log >>
          /\ Index \in 0..(Len(player.hand) - 1)
               /\ player.energy >= CardOf(player.hand[Index + 1]).cost =>
                /\ player'.hand = Pop(player.hand, Index)
                /\ player'.energy = player.energy - CardOf(player.hand[Index + 1]).cost
      ]_vars

\* C19: in combat there is a monster and its hp is above 0 and at most its
\* max_hp; so every endTurn in combat performs the monster's attack.
C19_MonsterAliveInCombat ==
    [][ /\ game_state = "combat" =>
              /\ current_monster # None
              /\ 0 < current_monster.hp
              /\ current_monster.hp <= current_monster.max_hp
        /\ game_state' = "combat" =>
              /\ current_monster' # None
              /\ 0 < current_monster'.hp
              /\ current_monster'.hp <= current_monster'.max_hp
        /\ Did("endTurn") =>
              /\ game_state = "combat"
              /\ Len(combat_log') = Len(combat_log) + 1
              /\ LastEntry'[1] = "attacks"
              /\ LastEntry'[2] = current_monster.name ]_vars

\* the Goblin of floor 2, one Strike from defeat, attacks
C19_Witness ==
    /\ last.op = "endTurn"
    /\ game_state = "combat"
    /\ floor = 2
    /\ current_monster.hp = 6
    /\ LastEntry[1] = "attacks"

\* C20: chooseCombat changes only the monster, the phase, the log (emptied)
\* and the hand (a draw of min(5, deck size) cards of the deck); energy, block,
\* hp, max_hp, gold, deck and floor are what they were; and energy is between
\* 0 and max_energy in every reachable state.
C20_ChooseCombatFrame ==
    [][ /\ 0 <= player.energy /\ player.energy <= player.max_energy
        /\ 0 <= player'.energy /\ player'.energy <= player'.max_energy
        /\ Did("chooseCombat") =>
              /\ game_state = "map"
              /\ game_state' = "combat"
              /\ current_monster' # None
              /\ combat_log' = << >>
              /\ Len(player'.hand) = Min(5, Len(player.deck))
              /\ SubBag(player'.hand, player.deck)
              /\ player' = [player EXCEPT !.hand = player'.hand]
              /\ floor' = floor ]_vars

\* an encounter begun with the energy and the block the last one left
C20_Witness ==
    /\ last.op = "chooseCombat"
    /\ game_state = "combat"
    /\ player.energy < player.max_energy
    /\ player.block > 0
    /\ combat_log = << >>

====
